---- MODULE Spec2Model ----
(***************************************************************************)
(* Model of ising.py: the microcanonical ("demon") Monte Carlo engine     *)
(* IsingSim with its batched random point supplier.                       *)
(*                                                                         *)
(* The constructor body up to the call of init() gives the initial state; *)
(* init() and step() are unrolled one loop iteration per action so that   *)
(* every intermediate state (after each trial, after each candidate move) *)
(* is a state of the model.                                               *)
(*                                                                         *)
(* Number representations, as the Python/NumPy code produces them:        *)
(*   - lattice cells are np.int8; "2 * spin" is np.int8, so magnetization,*)
(*     m_acc and m2_acc become np.int8 scalars and wrap modulo 2^8;       *)
(*   - get_delta returns np.int64 (ndarray.sum() of int8 accumulates in   *)
(*     int64), so the energies are 64-bit and never overflow at the model *)
(*     sizes: they are plain integers here;                               *)
(*   - temperature is a float; it is represented by the exact rational    *)
(*     num / den that is the value of dem_energy_acc / mcs * N, the       *)
(*     expression from which the code computes it.                        *)
(***************************************************************************)
EXTENDS Integers, Sequences, FiniteSets, TLC

VARIABLES
    L, N, target_energy,          \* constructor arguments and N = L * L
    sys_energy, dem_energy, mcs,
    sys_energy_acc, dem_energy_acc,
    magnetization, m_acc, m2_acc,
    accepted_moves, temperature,
    lattice,                      \* [Points(L) -> {UP, DOWN}]
    irand, nrand, rand_pts,       \* supplier: cursor, batch size, batch
    pc,                           \* where the program is: "init", "idle", "step",
                                  \* "raised"; "delta", "returned" in the
                                  \* specification of get_delta
    tries, energy, mag,           \* locals of init()
    i,                            \* loop index of step()
    pt, de,                       \* locals of the loops: drawn point, delta
    ridx,                         \* index of rand_pts read by the last get_random_pt call
    ncalls,                       \* number of get_random_pt calls made so far
    refilled,                     \* whether the last get_random_pt call drew a fresh batch
    init_energy,                  \* history: the sys_energy init() returned with
    apc,                          \* SimAnimation: "off" (no animation), "new" (run()
                                  \* called, nothing drawn), "loop" (event loop
                                  \* idle), "update" (inside update())
    paused,                       \* SimAnimation.paused
    running,                      \* whether ani.event_source is started
    im,                           \* the lattice handed to imshow / im.set_data
    history,                      \* the entries of sys_eng, dem_eng, mag, temp
    frames                        \* number of update() calls the timer has made

vars == << L, N, target_energy, sys_energy, dem_energy, mcs, sys_energy_acc,
           dem_energy_acc, magnetization, m_acc, m2_acc, accepted_moves,
           temperature, lattice, irand, nrand, rand_pts, pc, tries, energy,
           mag, i, pt, de, ridx, ncalls, refilled, init_energy, apc, paused,
           running, im, history, frames >>

---------------------------------------------------------------------------
(* Bounds of the model *)

\* lattice sizes 1 .. MaxL
MaxL == 3
\* lattice sizes 1 .. MaxDeltaL for the get_delta specification
MaxDeltaL == 3
\* requested energies are the multiples of 4 in -4*MaxTargetK .. 4*MaxTargetK
MaxTargetK == 1
\* batch size of the supplier (self.nrand is 1024 * 10 in the source)
NRand == 2
\* number of candidate moves of step() explored, over all sweeps: lattices
\* with more than MaxMoves points stop inside their first sweep
MaxMoves == 8
\* number of get_random_pt calls explored by the supplier specification
MaxCalls == 6
\* number of distinct lattice points np.random.randint may deliver when the
\* lattice has more points than this (all points otherwise)
MaxDraw == 4

---------------------------------------------------------------------------
(* Constants and helpers of the source *)

UP == 1
DOWN == -1

\* np.int8 arithmetic wraps modulo 2^8
Wrap8(x) == ((x + 128) % 256) - 128

Points(l) == (0 .. l - 1) \X (0 .. l - 1)

\* Lookup table of neighbour direction vectors: zip(nx, ny)
dirs == << <<1, 0>>, <<-1, 0>>, <<0, 1>>, <<0, -1>> >>

\* The points a batch may contain.  np.random.randint(L, size=(nrand, 2))
\* delivers any point of the lattice; for lattices with more than MaxDraw
\* points the model draws from MaxDraw of them, spread over the lattice
\* (interior, edge and corner points) by a stride coprime to l * l.
DrawPts(l) ==
    LET n == l * l
        k == IF n <= MaxDraw THEN n ELSE MaxDraw
        idx == { (j * 7) % n : j \in 0 .. k - 1 }
    IN  { << x \div l, x % l >> : x \in idx }

Batches(l, n) == [ 0 .. n - 1 -> DrawPts(l) ]

\* requested energies
TargetEnergies == { 4 * k : k \in -MaxTargetK .. MaxTargetK }

RECURSIVE SumOver(_, _)
SumOver(f, S) ==
    IF S = {} THEN 0
    ELSE LET x == CHOOSE y \in S : TRUE IN f[x] + SumOver(f, S \ {x})

---------------------------------------------------------------------------
(* get_delta *)

\* a get_delta without the periodic condition for (1, 0) and (0, 1)
WrapLNone(x, l) == x

\* nn[nn == self.L] = 0
WrapL(x, l) == IF x = l THEN 0 ELSE x

\* row k of nn: nn = pt + self.dirs; nn[nn == self.L] = 0
Neighbour(p, k, l) ==
    << WrapL(p[1] + dirs[k][1], l), WrapL(p[2] + dirs[k][2], l) >>

\* NumPy indexing of an axis of length l: indices -l .. l-1 are valid and a
\* negative index x addresses element x + l; anything else is an IndexError.
ValidIndex(x, l) == x >= -l /\ x < l
Resolve(x, l) == IF x < 0 THEN x + l ELSE x

\* self.lattice[nn.T[0], nn.T[1]] raises IndexError
DeltaRaises(p, l) ==
    \E k \in 1 .. 4 :
        \/ ~ ValidIndex(Neighbour(p, k, l)[1], l)
        \/ ~ ValidIndex(Neighbour(p, k, l)[2], l)

\* the lattice cell that row k of nn addresses
NeighbourCell(p, k, l) ==
    << Resolve(Neighbour(p, k, l)[1], l), Resolve(Neighbour(p, k, l)[2], l) >>

\* de = 2 * self.lattice[pt] * self.lattice[nn.T[0], nn.T[1]].sum()
get_delta(lat, p, l) ==
    2 * lat[p] * ( lat[NeighbourCell(p, 1, l)] + lat[NeighbourCell(p, 2, l)]
                 + lat[NeighbourCell(p, 3, l)] + lat[NeighbourCell(p, 4, l)] )

---------------------------------------------------------------------------
(* get_random_pt *)

\* a supplier that refills one call too late
ExhaustedLate(ir, nr) == ir > nr

\* a supplier that refills one call too early
ExhaustedEarly(ir, nr) == ir >= nr - 1

\* if self.irand >= self.nrand
Exhausted(ir, nr) == ir >= nr

\* The batch np.random.randint would deliver to this call: any batch when
\* the call refills, irrelevant otherwise.
FreshBatches == IF Exhausted(irand, nrand) THEN Batches(L, nrand) ELSE { rand_pts }

\* One call of get_random_pt from cursor ir, batch size nr, batch rp, with
\* fresh the batch np.random.randint returns if it is called.
get_random_pt(ir, nr, rp, fresh) ==
    LET refill == Exhausted(ir, nr)
        ir1 == IF refill THEN 0 ELSE ir
        rp1 == IF refill THEN fresh ELSE rp
        ok == ValidIndex(ir1, nr)
    IN  [ raised |-> ~ ok,
          refill |-> refill,
          idx |-> ir1,
          rand_pts |-> rp1,
          pt |-> IF ok THEN rp1[Resolve(ir1, nr)] ELSE << 0, 0 >>,
          irand |-> IF ok THEN ir1 + 1 ELSE ir1 ]

---------------------------------------------------------------------------
(* Pieces of init() and step() *)

\* max_tries = 10 * self.N
MaxTries(n) == 10 * n

\* an init() loop that allows one trial more than max_tries
InitContinueOneMore(e, target, t, n) == e < target /\ t <= MaxTries(n)

\* an init() loop that goes on when the energy equals the request
InitContinueAtTarget(e, target, t, n) == e <= target /\ t < MaxTries(n)

\* while energy < self.target_energy and tries < max_tries
InitContinue(e, target, t, n) == e < target /\ t < MaxTries(n)

\* a flip on every non-zero energy change
InitAcceptNonZero(d) == d # 0

\* if de > 0
InitAccept(d) == d > 0

\* an acceptance test that rejects de = dem_energy
AcceptStrict(d, dem) == d < dem

\* if de <= self.dem_energy
Accept(d, dem) == d <= dem

\* the spin change 2 * spin stored in place of the spin
FlipStoresChange(lat, p) == [ lat EXCEPT ![p] = 2 * (- lat[p]) ]

\* a flip of the whole row of the point
FlipRow(lat, p) == [ q \in DOMAIN lat |-> IF q[1] = p[1] THEN - lat[q] ELSE lat[q] ]

\* spin = -self.lattice[pt]; self.lattice[pt] = spin
Flip(lat, p) == [ lat EXCEPT ![p] = - lat[p] ]

\* the energy change booked with the wrong sign
SysAfterDebited(sys, d) == sys - d

\* self.sys_energy += de
SysAfter(sys, d) == sys + d

\* a demon that is credited instead of debited
DemAfterCredited(dem, d) == dem + d

\* self.dem_energy -= de
DemAfter(dem, d) == dem - d

\* self.magnetization += 2 * spin   (np.int8 arithmetic)
MagAfter(m, spin) == Wrap8(m + 2 * spin)

\* dem_energy, dem_energy_acc are the Python int 0 until the first accepted
\* move makes them np.int64: Python float division by zero raises, NumPy
\* float division by zero gives inf.
StillPythonInt(acc) == acc = 0

\* 4 / (self.dem_energy_acc / self.mcs * self.N) raises ZeroDivisionError
TemperatureRaises(dacc, acc) == dacc = 0 /\ StillPythonInt(acc)

\* the argument dem_energy_acc / mcs * N of the temperature expression
TemperatureArg(dacc, m, n) == [ computed |-> TRUE, num |-> dacc * n, den |-> m ]


supplier == << irand, rand_pts, ridx, refilled >>
statistics == << sys_energy_acc, dem_energy_acc, m_acc, m2_acc >>
fields == << sys_energy, dem_energy, magnetization, accepted_moves >>
params == << L, N, target_energy, nrand >>
initLocals == << tries, energy, mag >>
anim == << apc, paused, running, im, history, frames >>
engine == << L, N, target_energy, sys_energy, dem_energy, mcs, sys_energy_acc,
             dem_energy_acc, magnetization, m_acc, m2_acc, accepted_moves,
             temperature, lattice, irand, nrand, rand_pts >>

\* what a get_random_pt call g leaves in the supplier
Supplied(g) ==
    /\ irand' = g.irand
    /\ rand_pts' = g.rand_pts
    /\ ridx' = g.idx
    /\ refilled' = g.refill

---------------------------------------------------------------------------
(* __init__ up to the call of init(), and the first lines of init() *)

Construct(sizes, nr) ==
    /\ L \in sizes
    /\ N = L * L
    /\ target_energy \in TargetEnergies
    /\ sys_energy = 0
    /\ dem_energy = 0
    /\ mcs = 0
    /\ sys_energy_acc = 0
    /\ dem_energy_acc = 0
    /\ magnetization = 0
    /\ m_acc = 0
    /\ m2_acc = 0
    /\ accepted_moves = 0
    /\ temperature = [ computed |-> FALSE, num |-> 0, den |-> 1 ]
    /\ lattice = [ p \in Points(L) |-> UP ]
    /\ irand = 0
    /\ nrand = nr
    /\ rand_pts \in Batches(L, nr)
    /\ pc = "init"
    /\ tries = 0
    /\ energy = - N
    /\ mag = N
    /\ i = 0
    /\ pt = << 0, 0 >>
    /\ de = 0
    /\ ridx = 0
    /\ ncalls = 0
    /\ refilled = FALSE
    /\ init_energy = 0

\* the engine is used without a SimAnimation
NoAnimation ==
    /\ apc = "off"
    /\ paused = FALSE
    /\ running = FALSE
    /\ im = << >>
    /\ history = << >>
    /\ frames = 0

Init == Construct(1 .. MaxL, NRand) /\ NoAnimation

---------------------------------------------------------------------------
(* init(): one iteration of the while loop *)

InitTrial ==
    /\ pc = "init"
    /\ InitContinue(energy, target_energy, tries, N)
    /\ \E fresh \in FreshBatches :
       \E g \in { get_random_pt(irand, nrand, rand_pts, fresh) } :
        /\ Supplied(g)
        /\ IF g.raised \/ DeltaRaises(g.pt, L)
           THEN /\ pc' = "raised"
                /\ pt' = IF g.raised THEN pt ELSE g.pt
                /\ UNCHANGED << lattice, de, initLocals >>
           ELSE \E d \in { get_delta(lattice, g.pt, L) } :
                /\ pt' = g.pt
                /\ de' = d
                /\ IF InitAccept(d)
                   THEN /\ energy' = energy + d
                        /\ lattice' = Flip(lattice, g.pt)
                        /\ mag' = mag + 2 * (- lattice[g.pt])
                   ELSE UNCHANGED << energy, lattice, mag >>
                /\ tries' = tries + 1
                /\ pc' = pc
    /\ UNCHANGED << params, fields, statistics, mcs, temperature, i, ncalls,
                    init_energy, anim >>

\* the loop condition fails: self.sys_energy = energy, and init() returns
InitReturn ==
    /\ pc = "init"
    /\ ~ InitContinue(energy, target_energy, tries, N)
    /\ sys_energy' = energy
    /\ init_energy' = energy
    /\ pc' = "idle"
    /\ tries' = 0 /\ energy' = 0 /\ mag' = 0     \* the locals end with the call
    /\ UNCHANGED << params, dem_energy, magnetization, accepted_moves, statistics,
                    mcs, temperature, lattice, supplier, i, pt, de, ncalls, anim >>

---------------------------------------------------------------------------
(* step() *)

\* a sweep with fewer candidates than sites
InSweepShort(k, n) == k < n - 1

\* for i in range(self.N): the loop body runs while i < N
InSweep(k, n) == k < n

\* step() is called: for i in range(self.N)
StepCall ==
    /\ pc = "idle"
    /\ mcs * N < MaxMoves
    /\ pc' = "step"
    /\ i' = 0
    /\ UNCHANGED << params, fields, statistics, mcs, temperature, lattice,
                    supplier, initLocals, pt, de, ncalls, init_energy, anim >>

\* one candidate move: one iteration of the for loop (i counts the
\* iterations made)
StepCandidate ==
    /\ pc = "step"
    /\ InSweep(i, N)
    /\ mcs * N + i < MaxMoves
    /\ \E fresh \in FreshBatches :
       \E g \in { get_random_pt(irand, nrand, rand_pts, fresh) } :
        /\ Supplied(g)
        /\ IF g.raised \/ DeltaRaises(g.pt, L)
           THEN /\ pc' = "raised"
                /\ pt' = IF g.raised THEN pt ELSE g.pt
                /\ UNCHANGED << lattice, de, fields, statistics, i >>
           ELSE \E d \in { get_delta(lattice, g.pt, L) } :
                /\ pt' = g.pt
                /\ de' = d
                /\ IF Accept(d, dem_energy)
                   THEN /\ lattice' = Flip(lattice, g.pt)
                        /\ accepted_moves' = accepted_moves + 1
                        /\ sys_energy' = SysAfter(sys_energy, d)
                        /\ dem_energy' = DemAfter(dem_energy, d)
                        /\ magnetization' = MagAfter(magnetization, - lattice[g.pt])
                   ELSE UNCHANGED << lattice, fields >>
                /\ sys_energy_acc' = sys_energy_acc + sys_energy'
                /\ dem_energy_acc' = dem_energy_acc + dem_energy'
                /\ m_acc' = Wrap8(m_acc + magnetization')
                /\ m2_acc' = Wrap8(m2_acc + Wrap8(magnetization' * magnetization'))
                /\ i' = i + 1
                /\ pc' = pc
    /\ UNCHANGED << params, mcs, temperature, initLocals, ncalls, init_energy,
                    anim >>

\* the loop is over: self.mcs += 1 and the temperature estimate
StepReturn ==
    /\ pc = "step"
    /\ ~ InSweep(i, N)
    /\ mcs' = mcs + 1
    /\ IF TemperatureRaises(dem_energy_acc, accepted_moves)
       THEN pc' = "raised" /\ UNCHANGED temperature
       ELSE pc' = "idle" /\ temperature' = TemperatureArg(dem_energy_acc, mcs', N)
    /\ UNCHANGED << params, fields, statistics, lattice, supplier, initLocals,
                    i, pt, de, ncalls, init_energy, anim >>

Next == InitTrial \/ InitReturn \/ StepCall \/ StepCandidate \/ StepReturn

Spec == Init /\ [][Next]_vars

---------------------------------------------------------------------------
(* SimAnimation(sim, interval).run() on a constructed engine.  The event *)
(* loop runs one callback at a time: the first draw calls init(), every   *)
(* timer tick calls update() while the event source is started, and every *)
(* key press calls on_click().  An exception of step() leaves update()    *)
(* before get_state(); the model stops there.                             *)

Keys == { " ", "q" }

\* IsingSim.get_state()
get_state ==
    [ lattice |-> lattice, sys_energy |-> sys_energy, dem_energy |-> dem_energy,
      magnetization |-> magnetization, temperature |-> temperature ]

\* SimAnimation.__init__ and run(): nothing drawn yet
NewAnimation ==
    /\ apc = "new"
    /\ paused = FALSE
    /\ running = FALSE
    /\ im = << >>
    /\ history = << >>
    /\ frames = 0

InitAnimation ==
    /\ Construct(1 .. MaxL, NRand)
    /\ NewAnimation
    /\ target_energy = 0

\* SimAnimation.init(), the init_func of the first draw, which also starts
\* the timer
AnimInit ==
    /\ apc = "new"
    /\ pc = "idle"
    /\ \E st \in { get_state } :
        /\ history' = Append(history, [ seng |-> st.sys_energy,
                                        deng |-> st.dem_energy,
                                        mag |-> st.magnetization,
                                        temp |-> st.temperature ])
        /\ im' = st.lattice
    /\ running' = TRUE
    /\ apc' = "loop"
    /\ UNCHANGED << engine, pc, initLocals, i, pt, de, ridx, ncalls, refilled,
                    init_energy, paused, frames >>

\* a timer tick enters update(): self.sim.step()
UpdateCall ==
    /\ apc = "loop"
    /\ running
    /\ pc = "idle"
    /\ mcs * N < MaxMoves
    /\ apc' = "update"
    /\ frames' = frames + 1
    /\ pc' = "step"
    /\ i' = 0
    /\ UNCHANGED << engine, initLocals, pt, de, ridx, ncalls, refilled,
                    init_energy, paused, running, im, history >>

\* step() has returned: get_state() and im.set_data(lattice)
UpdateShow ==
    /\ apc = "update"
    /\ pc = "idle"
    /\ \E st \in { get_state } : im' = st.lattice
    /\ apc' = "loop"
    /\ UNCHANGED << engine, pc, initLocals, i, pt, de, ridx, ncalls, refilled,
                    init_energy, paused, running, history, frames >>

\* on_click(event): every key but the space bar returns at once
OnClick ==
    /\ apc = "loop"
    /\ \E key \in Keys :
        IF key # " "
        THEN UNCHANGED << paused, running >>
        ELSE IF paused
             THEN running' = TRUE /\ paused' = FALSE
             ELSE running' = FALSE /\ paused' = TRUE
    /\ UNCHANGED << engine, pc, initLocals, i, pt, de, ridx, ncalls, refilled,
                    init_energy, apc, im, history, frames >>

NextAnimation ==
    \/ InitTrial \/ InitReturn \/ AnimInit \/ UpdateCall \/ StepCandidate
    \/ StepReturn \/ UpdateShow \/ OnClick

SpecAnimation == InitAnimation /\ [][NextAnimation]_vars

---------------------------------------------------------------------------
(* Construction alone, IsingSim(L, energy), on the lattices of the engine *)
(* specification and on the 4 x 4 lattice                                  *)

InitConstruction == Construct((1 .. MaxL) \cup { 4 }, NRand) /\ NoAnimation

NextConstruction == InitTrial \/ InitReturn

SpecConstruction == InitConstruction /\ [][NextConstruction]_vars

---------------------------------------------------------------------------
(* get_random_pt alone: the first MaxCalls calls on a constructed supplier *)

InitSupplier ==
    /\ Construct(1 .. MaxL, NRand)
    /\ NoAnimation
    /\ target_energy = 0

NextPoint ==
    /\ pc = "init"
    /\ ncalls < MaxCalls
    /\ \E fresh \in FreshBatches :
       \E g \in { get_random_pt(irand, nrand, rand_pts, fresh) } :
        /\ Supplied(g)
        /\ ncalls' = ncalls + 1
        /\ pt' = IF g.raised THEN pt ELSE g.pt
        /\ pc' = IF g.raised THEN "raised" ELSE pc
    /\ UNCHANGED << params, fields, statistics, mcs, temperature, lattice,
                    initLocals, i, de, init_energy, anim >>

SpecSupplier == InitSupplier /\ [][NextPoint]_vars

---------------------------------------------------------------------------
(* get_delta alone: every lattice and every point of the sizes 1 .. MaxDeltaL *)

InitDelta ==
    /\ L \in 1 .. MaxDeltaL
    /\ N = L * L
    /\ lattice \in [ Points(L) -> { UP, DOWN } ]
    /\ pc = "delta"
    /\ target_energy = 0 /\ sys_energy = 0 /\ dem_energy = 0 /\ mcs = 0
    /\ sys_energy_acc = 0 /\ dem_energy_acc = 0
    /\ magnetization = 0 /\ m_acc = 0 /\ m2_acc = 0
    /\ accepted_moves = 0
    /\ temperature = [ computed |-> FALSE, num |-> 0, den |-> 1 ]
    /\ irand = 0 /\ nrand = NRand
    /\ rand_pts = [ k \in 0 .. NRand - 1 |-> << 0, 0 >> ]
    /\ tries = 0 /\ energy = 0 /\ mag = 0 /\ i = 0
    /\ pt = << 0, 0 >> /\ de = 0
    /\ ridx = 0 /\ ncalls = 0 /\ refilled = FALSE
    /\ init_energy = 0
    /\ NoAnimation

DeltaCall ==
    /\ pc = "delta"
    /\ \E p \in Points(L) :
        /\ pt' = p
        /\ IF DeltaRaises(p, L)
           THEN pc' = "raised" /\ de' = de
           ELSE pc' = "returned" /\ de' = get_delta(lattice, p, L)
    /\ UNCHANGED << params, fields, statistics, mcs, temperature, lattice,
                    supplier, initLocals, i, ncalls, init_energy, anim >>

SpecDelta == InitDelta /\ [][DeltaCall]_vars

---------------------------------------------------------------------------
(* Properties *)

\* the program is past construction: init() has returned
Constructed == pc \in { "idle", "step" }

\* a step of step() that completes one candidate move
CandidateDone == pc = "step" /\ i' = i + 1

\* the sum of all lattice spin values
SpinSum == SumOver(lattice, Points(L))

\* C1: energy conservation.  init() returns with dem_energy = 0, so that
\* sys_energy + dem_energy is the sys_energy it returns with, and no step
\* taken after construction (a candidate move accepted or rejected, the
\* call and the return of step()) changes sys_energy + dem_energy.
C1_EnergyConservation ==
    [][ /\ (pc = "init" /\ pc' = "idle") => sys_energy' + dem_energy' = sys_energy'
        /\ Constructed => sys_energy' + dem_energy' = sys_energy + dem_energy ]_vars

\* an accepted move has moved energy to the demon, and a move was rejected
C1_Witness ==
    /\ pc = "step"
    /\ L = 3
    /\ dem_energy > 0
    /\ accepted_moves > 0
    /\ i > accepted_moves

\* C2: acceptance rule.  In every candidate move of step() de is get_delta
\* of the drawn point, the drawn spin is flipped iff de <= dem_energy (the
\* demon energy before the move), and an accepted move changes dem_energy by
\* -de, sys_energy by +de and accepted_moves by +1.
C2_AcceptanceRule ==
    [][ CandidateDone =>
          LET d == get_delta(lattice, pt', L) IN
          /\ de' = d
          /\ (lattice'[pt'] = - lattice[pt']) <=> (d <= dem_energy)
          /\ (d <= dem_energy) =>
                /\ dem_energy' = dem_energy - d
                /\ sys_energy' = sys_energy + d
                /\ accepted_moves' = accepted_moves + 1 ]_vars

\* the scenario of the claim: with dem_energy = 0 candidates were rejected,
\* then one with de = -4 was accepted and left dem_energy = 4
C2_Witness ==
    /\ pc = "step"
    /\ i >= 2
    /\ accepted_moves = 1
    /\ de = -4
    /\ dem_energy = 4

\* C3: magnetization consistency.  After construction the magnetization
\* field is the sum of all lattice spin values.
C3_MagnetizationIsSpinSum == Constructed => magnetization = SpinSum

\* C4: energy range.  After construction sys_energy is within [-2N, 2N].
C4_EnergyRange == Constructed => (sys_energy >= -2 * N /\ sys_energy <= 2 * N)

\* the four neighbours of p on the l x l torus, in the order of dirs
TorusNeighbour(p, k, l) == << (p[1] + dirs[k][1]) % l, (p[2] + dirs[k][2]) % l >>

\* C5: periodic boundary correctness.  get_delta never raises; the four
\* cells it reads are the toroidal neighbours of the point, cells of the
\* lattice; it returns 2 * lattice[r][c] * (their sum); the lattice is
\* left as it was.
C5_PeriodicDelta ==
    /\ [](pc # "raised")
    /\ [](pc = "returned" =>
            /\ \A k \in 1 .. 4 :
                 /\ NeighbourCell(pt, k, L) \in Points(L)
                 /\ NeighbourCell(pt, k, L) = TorusNeighbour(pt, k, L)
            /\ de = 2 * lattice[pt] *
                      ( lattice[<< (pt[1] + 1) % L, pt[2] >>]
                      + lattice[<< (pt[1] - 1) % L, pt[2] >>]
                      + lattice[<< pt[1], (pt[2] + 1) % L >>]
                      + lattice[<< pt[1], (pt[2] - 1) % L >>] ))
    /\ [][lattice' = lattice]_vars

\* a point of row 0 and column L-1 of a 3 x 3 lattice whose neighbours across
\* both edges are down
C5_Witness ==
    /\ pc = "returned"
    /\ L = 3
    /\ pt = << 0, 2 >>
    /\ lattice[<< 2, 2 >>] = DOWN
    /\ lattice[<< 0, 0 >>] = DOWN
    /\ lattice[<< 1, 2 >>] = UP
    /\ lattice[<< 0, 1 >>] = DOWN
    /\ lattice[<< 0, 2 >>] = UP
    /\ de = -4

\* C6: initialization terminates in bounded trials.  init() never makes
\* more than 10 * N trials, every pass through the loop is one more trial,
\* the loop never blocks or raises, and init() returns with sys_energy >=
\* target_energy or after exactly 10 * N trials.
C6_InitBoundedTrials ==
    /\ [](pc # "raised")
    /\ [](pc = "init" => tries <= 10 * N /\ ENABLED NextConstruction)
    /\ [][(pc = "init" /\ pc' = "init") => tries' = tries + 1]_vars
    /\ [][(pc = "init" /\ pc' = "idle") =>
             (sys_energy' >= target_energy \/ tries = 10 * N)]_vars

\* the trial budget is used up with the energy still below the request
C6_Witness ==
    /\ pc = "init"
    /\ L = 4
    /\ tries = 10 * N
    /\ energy > - N
    /\ energy < target_energy

\* C7: initialization result bounds.  After init() sys_energy >= -N, and if
\* a flip was made (each flip raises the energy above its start -N) then
\* sys_energy < target_energy + 8; with L = 4 and target_energy = 4 the loop
\* makes at most 160 trials and leaves -16 <= sys_energy <= 16.
C7_InitResultBounds ==
    /\ pc = "idle" =>
          /\ sys_energy >= - N
          /\ (sys_energy > - N \/ lattice # [ p \in Points(L) |-> UP ])
                => sys_energy < target_energy + 8
    /\ (L = 4 /\ target_energy = 4) =>
          /\ pc = "init" => tries <= 160
          /\ pc = "idle" => (sys_energy >= -16 /\ sys_energy <= 16)

\* the scenario of the claim, ended by a flip that passed the request
C7_Witness ==
    /\ pc = "idle"
    /\ L = 4
    /\ target_energy = 4
    /\ sys_energy = 8

\* C9: supplier cursor invariant.  The cursor stays in [0, nrand]; once a
\* point was served, it was read at index irand - 1 of the current batch,
\* an index in [0, nrand - 1]; the served pair and every pair of the batch
\* have both components in [0, L - 1].
C9_SupplierCursor ==
    /\ irand >= 0 /\ irand <= nrand
    /\ ridx >= 0 /\ ridx <= nrand - 1
    /\ DOMAIN rand_pts = 0 .. nrand - 1
    /\ \A k \in 0 .. nrand - 1 :
          /\ rand_pts[k][1] \in 0 .. L - 1
          /\ rand_pts[k][2] \in 0 .. L - 1
    /\ irand > 0 => (ridx = irand - 1 /\ pt = rand_pts[ridx])
    /\ pt[1] \in 0 .. L - 1 /\ pt[2] \in 0 .. L - 1

\* a candidate move of a second sweep was served from a batch refilled by
\* step(), with the cursor at the end of the batch
C9_Witness ==
    /\ pc = "step"
    /\ mcs = 1
    /\ i >= 2
    /\ irand = nrand
    /\ pt = rand_pts[nrand - 1]

\* C10: supplier refill timing.  Call number k of get_random_pt draws a
\* fresh batch iff k - 1 is a positive multiple of the batch size, serves
\* entry (k - 1) mod batch size of the batch then current, and leaves the
\* batch as it is unless it refills.
C10_RefillTiming ==
    [][ ncalls' = ncalls + 1 =>
          /\ pc' # "raised"
          /\ refilled' <=> (ncalls' - 1 > 0 /\ (ncalls' - 1) % nrand = 0)
          /\ ~ refilled' => rand_pts' = rand_pts
          /\ ridx' = (ncalls' - 1) % nrand
          /\ pt' = rand_pts'[ridx'] ]_vars

\* the second refill: call number 2 * batch size + 1
C10_Witness ==
    /\ ncalls = 2 * nrand + 1
    /\ refilled
    /\ ridx = 0
    /\ irand = 1

\* C11: temperature estimator argument.  After a complete sweep the
\* temperature is computed from x = dem_energy_acc / mcs / N, the mean demon
\* energy per candidate move: x * mcs * N = dem_energy_acc, with the
\* accumulator and the sweep count as they stand at the end of the sweep.
C11_TemperatureArgument ==
    (pc = "idle" /\ temperature.computed) =>
        temperature.num * mcs * N = dem_energy_acc * temperature.den

\* C12: the core never raises.  Construction and every step() run to
\* completion without an error, and dem_energy_acc is non-zero at the end of
\* every sweep.
C12_NeverRaises ==
    /\ pc # "raised"
    /\ (pc = "idle" /\ mcs > 0) => dem_energy_acc # 0

\* C13: pause and resume do not touch the engine.  A key press of any key
\* leaves every IsingSim field unchanged; every get_state() of the animation
\* sees the engine at a sweep boundary: no sweep is in progress, the sweep
\* counter equals the number of ticks made, the candidate counter of the
\* last sweep reached N, and N * mcs accumulations were made (each adds
\* sys_energy + dem_energy, the constant init() left, to the two sums).  Every tick
\* counts its sweep once, after exactly N candidates.
KeyPress == apc = "loop" /\ apc' = "loop"
GetStateCall == apc \in { "new", "update" } /\ apc' = "loop"
SweepBoundary ==
    /\ pc = "idle"
    /\ mcs = frames
    /\ mcs > 0 => i = N
    /\ sys_energy_acc + dem_energy_acc = init_energy * N * mcs

C13_PauseLeavesEngine ==
    [][ /\ KeyPress => UNCHANGED engine
        /\ GetStateCall => SweepBoundary
        /\ (apc # "off" /\ mcs' # mcs) =>
               (i = N /\ mcs' = mcs + 1 /\ mcs' = frames) ]_vars

\* a pause after two ticks, each of one complete sweep
C13_Witness == apc = "loop" /\ paused /\ frames = 2 /\ mcs = 2 /\ im = lattice


\* C14: frame of a candidate move in step().  A rejected candidate
\* (de > dem_energy) leaves lattice, sys_energy, dem_energy, magnetization
\* and accepted_moves unchanged; an accepted candidate negates the cell of
\* the drawn point and leaves every other cell unchanged.
C14_CandidateFrame ==
    [][ CandidateDone =>
          /\ de' > dem_energy =>
                UNCHANGED << lattice, sys_energy, dem_energy, magnetization,
                             accepted_moves >>
          /\ de' <= dem_energy =>
                /\ DOMAIN lattice' = DOMAIN lattice
                /\ lattice'[pt'] = - lattice[pt']
                /\ \A q \in DOMAIN lattice : q # pt' => lattice'[q] = lattice[q]
      ]_vars

\* after an accepted move on a lattice of several cells, a candidate was
\* rejected
C14_Witness ==
    /\ pc = "step"
    /\ L >= 2
    /\ accepted_moves > 0
    /\ i > accepted_moves
    /\ de > dem_energy

\* C15: accumulator bookkeeping.  init() leaves the accumulators, mcs,
\* accepted_moves and dem_energy at 0; after every candidate of step()
\* sys_energy_acc, dem_energy_acc, m_acc and m2_acc have grown by the
\* post-move sys_energy, dem_energy, magnetization and magnetization^2;
\* mcs is incremented by 1 after exactly N candidates, and accepted_moves
\* never exceeds the number of candidates.
C15_AccumulatorBookkeeping ==
    [][ /\ (pc = "init" /\ pc' = "idle") =>
              /\ sys_energy_acc' = 0 /\ dem_energy_acc' = 0
              /\ m_acc' = 0 /\ m2_acc' = 0
              /\ mcs' = 0 /\ accepted_moves' = 0 /\ dem_energy' = 0
        /\ CandidateDone =>
              /\ sys_energy_acc' = sys_energy_acc + sys_energy'
              /\ dem_energy_acc' = dem_energy_acc + dem_energy'
              /\ m_acc' = m_acc + magnetization'
              /\ m2_acc' = m2_acc + magnetization' * magnetization'
              /\ accepted_moves' <= N * mcs + i'
        /\ mcs' # mcs => (i = N /\ mcs' = mcs + 1) ]_vars

\* C16: greedy asymmetric initialization.  init() starts from the all-up
\* lattice with energy -N; each trial flips the drawn spin iff de > 0 and
\* then adds de to the energy; a trial with de <= 0 changes nothing but the
\* trial count and the supplier cursor; the energy never decreases over
\* the trials and strictly increases on every flip.
InitTrialDone == pc = "init" /\ tries' = tries + 1

C16_GreedyInit ==
    [][ /\ (pc = "init" /\ tries = 0) =>
              (energy = - N /\ \A q \in Points(L) : lattice[q] = UP)
        /\ InitTrialDone =>
              /\ de' = get_delta(lattice, pt', L)
              /\ de' > 0 =>
                    /\ lattice' = [ lattice EXCEPT ![pt'] = - lattice[pt'] ]
                    /\ energy' = energy + de'
                    /\ energy' > energy
              /\ de' <= 0 => UNCHANGED << lattice, energy, mag >>
              /\ energy' >= energy
              /\ UNCHANGED << params, fields, statistics, mcs, temperature >>
      ]_vars

\* after a flip, a trial on the flipped spin itself (de < 0) and a trial
\* with de = 0 changed nothing
C16_Witness ==
    /\ pc = "init"
    /\ tries >= 2
    /\ energy > - N
    /\ de <= 0


\* the coordinates get_delta indexes the lattice with: the entries of nn
NeighbourCoords(p, l) ==
    { Neighbour(p, k, l)[1] : k \in 1 .. 4 } \cup { Neighbour(p, k, l)[2] : k \in 1 .. 4 }

\* C17 as stated: no negative neighbour indices.  Every neighbour coordinate
\* that get_delta uses to index the lattice lies in [0, L-1]; neither -1 nor
\* L is ever used as an index.
C17_NoNegativeIndex ==
    pc = "returned" => NeighbourCoords(pt, L) \subseteq 0 .. L - 1

\* C17 amended: every neighbour coordinate that get_delta uses to index the
\* lattice lies in [-1, L-1]; L is never used, because the wrap to 0 is
\* applied after the addition; -1 is used exactly for a point in row 0 or
\* column 0, and the index -1 addresses row or column L-1, so that get_delta
\* never raises and every cell it reads is a cell of the lattice.
C17_IndexRange ==
    /\ pc # "raised"
    /\ pc = "returned" =>
          /\ NeighbourCoords(pt, L) \subseteq -1 .. L - 1
          /\ (-1 \in NeighbourCoords(pt, L)) <=> (pt[1] = 0 \/ pt[2] = 0)
          /\ \A k \in 1 .. 4 : NeighbourCell(pt, k, L) \in Points(L)
          /\ \A k \in 1 .. 4 : \A j \in 1 .. 2 :
                Neighbour(pt, k, L)[j] = -1 => NeighbourCell(pt, k, L)[j] = L - 1

\* a corner point whose neighbours use both the index -1 and the wrap of L
C17_Witness ==
    /\ pc = "returned"
    /\ L = 3
    /\ pt = << 0, 2 >>
    /\ Neighbour(pt, 2, L) = << -1, 2 >>
    /\ Neighbour(pt, 3, L) = << 0, 0 >>


\* the values 2 * s * (s1 + s2 + s3 + s4) of spins in {+1, -1}
DeltaValues == { -8, -4, 0, 4, 8 }

\* C18: lattice well-formedness.  In every reachable state (after
\* construction, during init and during any number of steps) the lattice is
\* L x L and every cell is +1 or -1; every value get_delta returns, for the
\* drawn point and for any point, is in {-8, -4, 0, 4, 8}.
C18_LatticeWellFormed ==
    /\ DOMAIN lattice = Points(L)
    /\ \A p \in Points(L) : lattice[p] \in { UP, DOWN }
    /\ de \in DeltaValues
    /\ \A p \in Points(L) : get_delta(lattice, p, L) \in DeltaValues

\* a mixed 3 x 3 lattice during a sweep, after a move with de = 4
C18_Witness ==
    /\ pc = "step"
    /\ L = 3
    /\ i >= 3
    /\ de = 4
    /\ \E p, q \in Points(L) : lattice[p] = UP /\ lattice[q] = DOWN

\* C19: demon energy is never negative.  In every reachable state, after
\* every candidate move of every step(), dem_energy >= 0; dem_energy_acc is
\* non-negative and never decreases; and after construction sys_energy
\* never exceeds the value init() left.
C19_DemonNonNegative ==
    [][ /\ dem_energy >= 0 /\ dem_energy' >= 0
        /\ dem_energy_acc >= 0
        /\ dem_energy_acc' >= dem_energy_acc
        /\ pc' # "init" => sys_energy' <= init_energy' ]_vars

\* the demon holds energy it took from the system, and has been counted
C19_Witness ==
    /\ pc = "step"
    /\ dem_energy = 8
    /\ dem_energy_acc > dem_energy
    /\ sys_energy = init_energy - 8

\* twice the nearest-neighbour Ising energy of the lattice,
\* E = -(1/2) * sum over all sites p of lattice[p] * (sum of p's four
\* toroidal neighbours)
TwiceLatticeEnergy ==
    - SumOver([ p \in Points(L) |->
                  lattice[p] * ( lattice[TorusNeighbour(p, 1, L)]
                               + lattice[TorusNeighbour(p, 2, L)]
                               + lattice[TorusNeighbour(p, 3, L)]
                               + lattice[TorusNeighbour(p, 4, L)] ) ],
              Points(L))

\* C20 as stated: sys_energy tracks the real lattice energy up to a fixed
\* offset.  For every L >= 2, after each init trial and each step candidate,
\* sys_energy - E(lattice) = N.
C20_SysEnergyTracksLattice ==
    (L >= 2 /\ ((pc = "init" /\ tries > 0) \/ Constructed)) =>
        2 * (sys_energy - N) = TwiceLatticeEnergy

\* C20 amended: for every L >= 2, after each init trial the running energy
\* of init() (its local energy) satisfies energy - E(lattice) = N, and from
\* the return of init() on, after each step candidate,
\* sys_energy - E(lattice) = N; while init() runs the field sys_energy is
\* still 0.
C20_EnergyTracksLattice ==
    L >= 2 =>
        /\ pc = "init" => (2 * (energy - N) = TwiceLatticeEnergy /\ sys_energy = 0)
        /\ pc \in { "idle", "step", "raised" } =>
              2 * (sys_energy - N) = TwiceLatticeEnergy

\* accepted moves on the 3 x 3 lattice have changed sys_energy
C20_Witness ==
    /\ pc = "step"
    /\ L = 3
    /\ accepted_moves >= 2
    /\ sys_energy < init_energy
    /\ TwiceLatticeEnergy = 2 * (sys_energy - N)

====
